---------------------------- MODULE Spec2Model ----------------------------
(***************************************************************************)
(* A model of bytree (src/lib/git.ts and bin/bytree.ts): the git worktree  *)
(* manager that copies the files matched by .git/info/exclude into each    *)
(* new worktree.                                                           *)
(*                                                                         *)
(* Strings are sequences of one-character strings, so that trim, split,    *)
(* startsWith, replace, path joining and glob matching are computed the    *)
(* way the code computes them.                                             *)
(***************************************************************************)
EXTENDS Integers, Sequences, FiniteSets, TLC

(***************************************************************************)
(* Bounds of the model.                                                    *)
(***************************************************************************)
MaxLines == 2

MaxPatterns == 2

MaxDeletes == 1

MaxRuns == 2

MaxWorktrees == 3

MaxRemoteBranches == 2

(***************************************************************************)
(* JavaScript string operations used by the code.                          *)
(***************************************************************************)
startsWith(s, p) == Len(s) >= Len(p) /\ SubSeq(s, 1, Len(p)) = p

endsWith(s, p) == Len(s) >= Len(p) /\ SubSeq(s, Len(s) - Len(p) + 1, Len(s)) = p

slice(s, n) == SubSeq(s, n + 1, Len(s))

IsWhiteSpace(c) == c \in {" ", "\t", "\r", "\n"}

RECURSIVE trimStart(_)
trimStart(s) ==
    IF s # <<>> /\ IsWhiteSpace(Head(s)) THEN trimStart(Tail(s)) ELSE s

RECURSIVE trimEnd(_)
trimEnd(s) ==
    IF s # <<>> /\ IsWhiteSpace(s[Len(s)])
    THEN trimEnd(SubSeq(s, 1, Len(s) - 1))
    ELSE s

trim(s) == trimEnd(trimStart(s))

\* s.indexOf(p), 1-based; 0 when p does not occur in s
indexOf(s, p) ==
    LET hits == {i \in 1..(Len(s) - Len(p) + 1) : SubSeq(s, i, i + Len(p) - 1) = p}
    IN  IF hits = {} THEN 0 ELSE CHOOSE i \in hits : \A j \in hits : i <= j

includes(s, p) == indexOf(s, p) # 0

\* s.replace(p, r) with a string pattern: the first occurrence only
replace(s, p, r) ==
    LET i == indexOf(s, p)
    IN  IF i = 0 THEN s
        ELSE SubSeq(s, 1, i - 1) \o r \o SubSeq(s, i + Len(p), Len(s))

\* s.split(c) for a one-character separator
RECURSIVE split(_, _)
split(s, c) ==
    LET i == indexOf(s, <<c>>)
    IN  IF i = 0 THEN <<s>>
        ELSE <<SubSeq(s, 1, i - 1)>> \o split(slice(s, i), c)

RECURSIVE joinWith(_, _)
joinWith(parts, c) ==
    IF parts = <<>> THEN <<>>
    ELSE IF Len(parts) = 1 THEN parts[1]
    ELSE parts[1] \o <<c>> \o joinWith(Tail(parts), c)

(***************************************************************************)
(* node:path (posix): normalize, join, resolve, dirname.                   *)
(***************************************************************************)
isAbsolute(p) == p # <<>> /\ p[1] = "/"

RECURSIVE normalizeSegments(_, _, _)
normalizeSegments(segs, acc, abs) ==
    IF segs = <<>> THEN acc
    ELSE LET h == Head(segs)
             t == Tail(segs)
         IN  IF h = <<>> \/ h = <<".">> THEN normalizeSegments(t, acc, abs)
             ELSE IF h = <<".", ".">>
             THEN IF acc # <<>> /\ acc[Len(acc)] # <<".", ".">>
                  THEN normalizeSegments(t, SubSeq(acc, 1, Len(acc) - 1), abs)
                  ELSE IF abs THEN normalizeSegments(t, acc, abs)
                  ELSE normalizeSegments(t, Append(acc, h), abs)
             ELSE normalizeSegments(t, Append(acc, h), abs)

normalize(p) ==
    LET abs  == isAbsolute(p)
        body == joinWith(normalizeSegments(split(p, "/"), <<>>, abs), "/")
    IN  IF abs THEN <<"/">> \o body
        ELSE IF body = <<>> THEN <<".">> ELSE body

join(a, b) ==
    IF a = <<>> THEN normalize(b)
    ELSE IF b = <<>> THEN normalize(a)
    ELSE normalize(a \o <<"/">> \o b)

resolve(from, p) == IF isAbsolute(p) THEN normalize(p) ELSE join(from, p)

dirname(p) ==
    LET idx == {i \in 1..Len(p) : p[i] = "/"}
    IN  IF idx = {} THEN <<".">>
        ELSE LET last == CHOOSE i \in idx : \A j \in idx : j <= i
             IN  IF last = 1 THEN <<"/">> ELSE SubSeq(p, 1, last - 1)

(***************************************************************************)
(* Names and paths of the modelled repository.                             *)
(***************************************************************************)
NoFile == <<"NoFile">>

None == <<"None">>

DotGit == <<".", "g", "i", "t">>

Info == <<"i", "n", "f", "o">>

Exclude == <<"e", "x", "c", "l", "u", "d", "e">>

\* the main repository's working tree, a subdirectory of it, its name
MainRoot == <<"/", "r">>

SubDir == <<"/", "r", "/", "s">>

RepoName == <<"r">>

\* `${repoInfo.repo}-bytree`
BytreeSuffix == <<"-", "b", "y", "t", "r", "e", "e">>

\* "bytree/"
BranchPrefix == <<"b", "y", "t", "r", "e", "e", "/">>

NameX == <<"x">>

NameY == <<"y">>

Names == {NameX, NameY}

\* join(repoRoot, "..", `${repoInfo.repo}-bytree`)
worktreeBaseOf(root) == join(join(root, <<".", ".">>), RepoName \o BytreeSuffix)

\* a linked worktree of the main repository, made by an earlier `add x`
LinkedRoot == join(worktreeBaseOf(MainRoot), NameX)

\* the directories the command is invoked from
Cwds == {MainRoot, SubDir, LinkedRoot}

\* the main repository's local ignore-pattern file
ExcludePath == join(join(join(MainRoot, DotGit), Info), Exclude)

(***************************************************************************)
(* The state: the environment of a command and the locals of its run; git's*)
(* bookkeeping and the add invocations working on it; the inputs and       *)
(* results of the list command and of getDefaultBranch.                    *)
(***************************************************************************)
VARIABLES
    cwd,            \* process.cwd()
    excludeLines,   \* the raw lines the exclude file was written with (history)
    excludeFile,    \* content of <main>/.git/info/exclude, or NoFile
    repoFiles,      \* files on disk in the main working tree, relative to its root
    repoRoot,       \* addCommand's local: getRepoRoot(cwd)
    worktreePath,   \* addCommand's local: the path createWorktree returned
    pc,             \* position of the running command
    exitCode        \* process exit code, "running" while the command runs

envVars == <<cwd, excludeLines, excludeFile, repoFiles, repoRoot, worktreePath>>

VARIABLES
    patterns,       \* result of getExcludePatterns
    pi,             \* index of the pattern being scanned
    pos,            \* how far the current glob scan has walked FileOrder
    pending,        \* the file the scan has just yielded, or None
    excludedFiles,  \* the array the matches are pushed to
    pushedBy,       \* history: the files each pattern pushed
    dangling        \* history: matches whose existence check failed

scanVars == <<patterns, pi, pos, pending, excludedFiles, pushedBy, dangling>>

VARIABLES
    files,          \* the deduplicated list findExcludedFiles returned
    ci,             \* index of the entry being copied
    copied,         \* the list copyExcludedFiles builds
    wtDirs,         \* directories on disk under the worktree base
    wtFiles,        \* files on disk under the worktree base
    failedAt,       \* history: index of the entry whose copy threw, 0 if none
    deletes         \* number of files another process has deleted so far

copyVars == <<files, ci, copied, wtDirs, wtFiles, failedAt, deletes>>

VARIABLES
    branches,       \* git's local branches
    worktrees,      \* git's registered linked worktrees: [path, branch, by]
    dirs,           \* directories on disk beside the main repository
    wpc,            \* per invocation: position in the add command
    wname,          \* per invocation: the <name> argument
    wbase,          \* per invocation: whether the base ref exists
    runs,           \* per process: add commands started so far
    runLog,         \* history, per process: name and outcome of each finished run
    overlap,        \* history, per invocation: another invocation was between its
                    \* existence check and its creation step while this one was
    raceFailed,     \* history: a creation step failed although its base ref exists
    clobbered       \* history: a forced removal took the worktree of an
                    \* invocation that was still running

gitVars == <<branches, worktrees, dirs, wpc, wname, wbase, runs, runLog,
             overlap, raceFailed, clobbered>>

VARIABLES
    listing,        \* git's worktrees, in listing order: [path, branch, mine]
    lpc,            \* position of the list command
    listed          \* result of listMyWorktrees

listVars == <<listing, lpc, listed>>

VARIABLES
    symbolicRef,    \* output of `git symbolic-ref refs/remotes/origin/HEAD`, or None
    remoteBranches, \* the remote-tracking branches of the repository
    branchROk,      \* whether `git branch -r` exits with 0
    dpc,            \* position of the caller of getDefaultBranch
    defaultBranch   \* what getDefaultBranch did: [raised, value]

branchVars == <<symbolicRef, remoteBranches, branchROk, dpc, defaultBranch>>

vars == <<envVars, pc, exitCode, scanVars, copyVars, gitVars, listVars, branchVars>>

(***************************************************************************)
(* Repository Locator.                                                     *)
(***************************************************************************)
InMainTree(dir) == dir = MainRoot \/ startsWith(dir, MainRoot \o <<"/">>)

RECURSIVE UpDirs(_)
UpDirs(n) == IF n = 0 THEN <<>> ELSE <<".", ".", "/">> \o UpDirs(n - 1)

\* `git -C dir rev-parse --git-common-dir`: relative to dir inside the main
\* working tree (".git" at its root), absolute inside a linked worktree
revParseGitCommonDir(dir) ==
    IF InMainTree(dir)
    THEN UpDirs(Len(split(dir, "/")) - Len(split(MainRoot, "/"))) \o DotGit
    ELSE join(MainRoot, DotGit)

\* `git -C dir rev-parse --show-toplevel`
revParseShowToplevel(dir) == IF InMainTree(dir) THEN MainRoot ELSE LinkedRoot

getRepoRoot(dir) ==
    LET gitCommonDir == trim(revParseGitCommonDir(dir))
    IN  IF gitCommonDir = DotGit
        THEN trim(revParseShowToplevel(dir))
        ELSE dirname(resolve(dir, gitCommonDir))

\* gitOk: whether the git subprocess exits with 0
getGitDir(root, gitOk) ==
    LET gitPath == join(root, DotGit)
    IN  IF gitOk THEN trim(revParseGitCommonDir(root)) ELSE gitPath

(***************************************************************************)
(* The file system as node:fs sees it: a relative path is resolved against *)
(* the process's working directory.                                        *)
(***************************************************************************)
existsSync(p) ==
    LET full == resolve(cwd, p)
    IN  \/ excludeFile # NoFile /\ full = ExcludePath
        \/ /\ startsWith(full, MainRoot \o <<"/">>)
           /\ slice(full, Len(MainRoot) + 1) \in repoFiles

readFile(p) == IF resolve(cwd, p) = ExcludePath THEN excludeFile ELSE <<>>

(***************************************************************************)
(* Pattern Source.                                                         *)
(***************************************************************************)
RECURSIVE ParseLines(_)
ParseLines(lines) ==
    IF lines = <<>> THEN <<>>
    ELSE LET trimmed == trim(Head(lines))
         IN  IF trimmed = <<>> \/ startsWith(trimmed, <<"#">>)
             THEN ParseLines(Tail(lines))
             ELSE <<trimmed>> \o ParseLines(Tail(lines))

getExcludePatterns(root, gitOk) ==
    LET gitDir      == getGitDir(root, gitOk)
        excludePath == join(join(gitDir, Info), Exclude)
    IN  IF ~existsSync(excludePath) THEN <<>>
        ELSE ParseLines(split(readFile(excludePath), "\n"))

(***************************************************************************)
(* The exclude files and working-tree files the model draws from.          *)
(***************************************************************************)
LineFooDir == <<"/", "f", "o", "o", "/">>

LineFooA == <<" ", "f", "o", "o", "/", "a", " ">>

LineComment == <<"#", " ", "c">>

LineBlank == <<>>

LineIndentedComment == <<" ", "#", "c">>

RawLines == {LineFooDir, LineFooA, LineComment, LineBlank, LineIndentedComment}

\* every line ends with a newline
RECURSIVE FileOf(_)
FileOf(lines) ==
    IF lines = <<>> THEN <<>> ELSE Head(lines) \o <<"\n">> \o FileOf(Tail(lines))

SeqsUpTo(S, n) == UNION {[1..k -> S] : k \in 0..n}

FooA == <<"f", "o", "o", "/", "a">>

FooDotH == <<"f", "o", "o", "/", ".", "h">>

FooDB == <<"f", "o", "o", "/", "d", "/", "b">>

FoobarC == <<"f", "o", "o", "b", "a", "r", "/", "c">>

SFooE == <<"s", "/", "f", "o", "o", "/", "e">>

\* the order in which a directory walk of the main working tree meets the files
FileOrder == <<FooA, FooDotH, FooDB, FoobarC, SFooE>>

AllFiles == {FileOrder[i] : i \in 1..Len(FileOrder)}

Range(q) == {q[i] : i \in 1..Len(q)}

(***************************************************************************)
(* Bun.Glob: a pattern matches a relative path segment by segment; "*"     *)
(* matches within one segment, a "**" segment matches any number of        *)
(* directories; without the dot option a wildcard does not match a name    *)
(* that begins with a dot.                                                 *)
(***************************************************************************)
RECURSIVE segmentMatch(_, _)
segmentMatch(p, t) ==
    IF p = <<>> THEN t = <<>>
    ELSE IF Head(p) = "*"
    THEN segmentMatch(Tail(p), t) \/ (t # <<>> /\ segmentMatch(p, Tail(t)))
    ELSE t # <<>> /\ Head(p) = Head(t) /\ segmentMatch(Tail(p), Tail(t))

dotAllows(p, t, dot) ==
    dot \/ ~startsWith(t, <<".">>) \/ startsWith(p, <<".">>)

RECURSIVE segmentsMatch(_, _, _)
segmentsMatch(ps, ts, dot) ==
    IF ps = <<>> THEN ts = <<>>
    ELSE IF Head(ps) = <<"*", "*">>
    THEN \/ segmentsMatch(Tail(ps), ts, dot)
         \/ /\ ts # <<>>
            /\ dotAllows(Head(ps), Head(ts), dot)
            /\ segmentsMatch(ps, Tail(ts), dot)
    ELSE /\ ts # <<>>
         /\ dotAllows(Head(ps), Head(ts), dot)
         /\ segmentMatch(Head(ps), Head(ts))
         /\ segmentsMatch(Tail(ps), Tail(ts), dot)

globMatch(pattern, file, dot) ==
    segmentsMatch(split(pattern, "/"), split(file, "/"), dot)

(***************************************************************************)
(* Exclusion Resolver: findExcludedFiles.                                  *)
(***************************************************************************)
\* the pattern handed to Bun.Glob
globPattern(pattern) ==
    LET p1 == IF startsWith(pattern, <<"/">>) THEN slice(pattern, 1) ELSE pattern
    IN  IF endsWith(p1, <<"/">>) THEN p1 \o <<"*", "*", "/", "*">> ELSE p1

\* [...new Set(list)]: first occurrences, in order
RECURSIVE dedupe(_)
dedupe(list) ==
    IF list = <<>> THEN <<>>
    ELSE LET front == dedupe(SubSeq(list, 1, Len(list) - 1))
             last  == list[Len(list)]
         IN  IF last \in Range(front) THEN front ELSE Append(front, last)

\* wrong: the branch name instead of the name
worktreePathOfBranch(base, name) == join(base, BranchPrefix \o name)

worktreePathOf(base, name) == join(base, name)

\* Bun.Glob's scan options in findExcludedFiles: { cwd: repoRoot, dot: true }
scanDotOff == FALSE

scanDot == TRUE

\* the next file the scan of patterns[pi] yields, walking on from pos; 0 if none
nextMatch ==
    LET hits == {j \in (pos + 1)..Len(FileOrder) :
                    /\ FileOrder[j] \in repoFiles
                    /\ globMatch(globPattern(patterns[pi]), FileOrder[j], scanDot)}
    IN  IF hits = {} THEN 0 ELSE CHOOSE j \in hits : \A k \in hits : j <= k

(***************************************************************************)
(* Replicator: copyExcludedFiles, and the end of the add command.          *)
(***************************************************************************)
\* await $`...`.quiet().nothrow(): a failing command is ignored
shellNothrow(succeeded) == FALSE

\* await $`...`.quiet(): Bun's shell throws when the command exits non-zero
shellThrows(succeeded) == ~succeeded

basename(p) == LET parts == split(p, "/") IN parts[Len(parts)]

\* wrong: flattens the entry into the worktree's top directory
destPathFlat(dest, file) == join(dest, basename(file))

destPathOf(dest, file) == join(dest, file)

RECURSIVE ancestors(_)
ancestors(dir) ==
    IF dir = <<"/">> \/ dir = <<".">> THEN {}
    ELSE {dir} \cup ancestors(dirname(dir))

\* copyExcludedFiles calls findExcludedFiles, which calls getExcludePatterns
FindStart ==
    /\ pc = "find"
    /\ \E gitOk \in BOOLEAN :
        /\ patterns' = getExcludePatterns(repoRoot, gitOk)
        /\ pushedBy' = [i \in 1..Len(patterns') |-> {}]
        /\ IF Len(patterns') = 0
           THEN /\ pc' = "copy"
                /\ files' = <<>>
                /\ ci' = 1
                /\ UNCHANGED <<pi, pos>>
           ELSE /\ pc' = "scan"
                /\ pi' = 1
                /\ pos' = 0
                /\ UNCHANGED <<files, ci>>
    /\ UNCHANGED <<envVars, exitCode, pending, excludedFiles, dangling,
                   copied, wtDirs, wtFiles, failedAt, deletes>>
    /\ UNCHANGED <<gitVars, listVars, branchVars>>

\* the glob scan of the current pattern yields its next match, or ends
ScanNext ==
    /\ pc = "scan"
    /\ pi <= Len(patterns)
    /\ pending = None
    /\ IF nextMatch # 0
       THEN /\ pending' = FileOrder[nextMatch]
            /\ pos' = nextMatch
            /\ pi' = pi
       ELSE /\ pi' = pi + 1
            /\ pos' = 0
            /\ pending' = None
    /\ UNCHANGED <<envVars, pc, exitCode, patterns, excludedFiles, pushedBy,
                   dangling, copyVars>>
    /\ UNCHANGED <<gitVars, listVars, branchVars>>

\* wrong: the match is pushed without the existence check
ExistsCheckSkipped ==
    /\ pc = "scan"
    /\ pending # None
    /\ excludedFiles' = Append(excludedFiles, pending)
    /\ pushedBy' = [pushedBy EXCEPT ![pi] = @ \cup {pending}]
    /\ pending' = None
    /\ UNCHANGED <<envVars, pc, exitCode, patterns, pi, pos, dangling, copyVars>>
    /\ UNCHANGED <<gitVars, listVars, branchVars>>

\* if (existsSync(fullPath)) excludedFiles.push(file)
ExistsCheck ==
    /\ pc = "scan"
    /\ pending # None
    /\ LET fullPath == join(repoRoot, pending)
       IN  IF existsSync(fullPath)
           THEN /\ excludedFiles' = Append(excludedFiles, pending)
                /\ pushedBy' = [pushedBy EXCEPT ![pi] = @ \cup {pending}]
                /\ UNCHANGED dangling
           ELSE /\ dangling' = dangling \cup {pending}
                /\ UNCHANGED <<excludedFiles, pushedBy>>
    /\ pending' = None
    /\ UNCHANGED <<envVars, pc, exitCode, patterns, pi, pos, copyVars>>
    /\ UNCHANGED <<gitVars, listVars, branchVars>>

\* return [...new Set(excludedFiles)]
FindReturn ==
    /\ pc = "scan"
    /\ pi > Len(patterns)
    /\ files' = dedupe(excludedFiles)
    /\ ci' = 1
    /\ pc' = "copy"
    /\ UNCHANGED <<envVars, exitCode, scanVars, copied, wtDirs, wtFiles,
                   failedAt, deletes>>
    /\ UNCHANGED <<gitVars, listVars, branchVars>>

\* one iteration of the copy loop: mkdir -p dirname(destPath); cp -r src dest
CopyEntry ==
    /\ pc = "copy"
    /\ ci <= Len(files)
    /\ \E mkdirOk \in BOOLEAN, cpOk \in BOOLEAN :
        LET file      == files[ci]
            srcPath   == join(repoRoot, file)
            destPath  == destPathOf(worktreePath, file)
            parents   == ancestors(dirname(destPath))
            mkdirDone == mkdirOk /\ parents \cap wtFiles = {}
            cpDone    == /\ mkdirDone
                         /\ cpOk
                         /\ existsSync(srcPath)
        IN  /\ wtDirs' = IF mkdirDone THEN wtDirs \cup parents ELSE wtDirs
            /\ IF shellThrows(mkdirDone)
               THEN /\ pc' = "threw"
                    /\ failedAt' = ci
                    /\ UNCHANGED <<ci, copied, wtFiles>>
               ELSE IF shellThrows(cpDone)
               THEN /\ pc' = "threw"
                    /\ failedAt' = ci
                    /\ UNCHANGED <<ci, copied, wtFiles>>
               ELSE /\ wtFiles' = IF cpDone THEN wtFiles \cup {destPath} ELSE wtFiles
                    /\ copied' = Append(copied, file)
                    /\ ci' = ci + 1
                    /\ UNCHANGED <<pc, failedAt>>
    /\ UNCHANGED <<envVars, exitCode, scanVars, files, deletes>>
    /\ UNCHANGED <<gitVars, listVars, branchVars>>

\* return copied
CopyReturn ==
    /\ pc = "copy"
    /\ ci > Len(files)
    /\ pc' = "returned"
    /\ UNCHANGED <<envVars, exitCode, scanVars, copyVars>>
    /\ UNCHANGED <<gitVars, listVars, branchVars>>

\* addCommand prints its report and main ends
MainExit ==
    /\ pc = "returned"
    /\ pc' = "exited"
    /\ exitCode' = "0"
    /\ UNCHANGED <<envVars, scanVars, copyVars>>
    /\ UNCHANGED <<gitVars, listVars, branchVars>>

\* main's catch: console.error, process.exit(1)
MainCatch ==
    /\ pc = "threw"
    /\ pc' = "exited"
    /\ exitCode' = "1"
    /\ UNCHANGED <<envVars, scanVars, copyVars>>
    /\ UNCHANGED <<gitVars, listVars, branchVars>>

\* another process deletes a file of the main working tree
DeleteFile ==
    /\ pc \in {"scan", "copy"}
    /\ deletes < MaxDeletes
    /\ \E f \in repoFiles : repoFiles' = repoFiles \ {f}
    /\ deletes' = deletes + 1
    /\ UNCHANGED <<cwd, excludeLines, excludeFile, repoRoot, worktreePath, pc,
                   exitCode, scanVars, files, ci, copied, wtDirs, wtFiles,
                   failedAt>>
    /\ UNCHANGED <<gitVars, listVars, branchVars>>

\* the excluded command: print getExcludePatterns(repoRoot)
ExcludedCommand ==
    /\ pc = "excluded"
    /\ repoRoot' = getRepoRoot(cwd)
    /\ \E gitOk \in BOOLEAN : patterns' = getExcludePatterns(repoRoot', gitOk)
    /\ pc' = "exited"
    /\ exitCode' = "0"
    /\ UNCHANGED <<cwd, excludeLines, excludeFile, repoFiles, worktreePath, pi, pos, pending, excludedFiles, pushedBy,
                   dangling, copyVars>>
    /\ UNCHANGED <<gitVars, listVars, branchVars>>

(***************************************************************************)
(* Worktree Provisioner: createWorktree over git's bookkeeping.            *)
(***************************************************************************)
Procs == {1, 2}

branchOf(name) == BranchPrefix \o name

worktreeBase == worktreeBaseOf(MainRoot)

registeredAt(path) == {w \in worktrees : w.path = path}

\* git worktree remove <path> --force: the worktrees left, and the directories
worktreeRemove(wts, path) == {w \in wts : w.path # path}

dirsAfterRemove(ds, wts, path) ==
    IF \E w \in wts : w.path = path THEN ds \ {path} ELSE ds

\* wrong: the branch is left in place
branchDeleteSkipped(bs, wts, b) == bs

\* git branch -D <b>: refused while a worktree has the branch checked out
branchDelete(bs, wts, b) ==
    IF b \in bs /\ ~\E w \in wts : w.branch = b THEN bs \ {b} ELSE bs

\* git worktree add -b <b> <path> <base>
worktreeAddOk(b, path, baseOk) ==
    /\ baseOk
    /\ b \notin branches
    /\ path \notin dirs
    /\ registeredAt(path) = {}

\* between the existence check and the creation step
InWindow(pcs, p) == pcs[p] \in {"remove", "deleteBranch", "create"}

overlapAfter(pcs, names) ==
    [p \in Procs |->
        \/ overlap[p]
        \/ /\ InWindow(pcs, p)
           /\ \E q \in Procs \ {p} : InWindow(pcs, q) /\ names[q] = names[p]]

AddStart(p, n, b) ==
    /\ wpc[p] = "idle"
    /\ runs[p] < MaxRuns
    /\ wpc' = [wpc EXCEPT ![p] = "mkdir"]
    /\ wname' = [wname EXCEPT ![p] = n]
    /\ wbase' = [wbase EXCEPT ![p] = b]
    /\ runs' = [runs EXCEPT ![p] = @ + 1]
    /\ overlap' = [overlap EXCEPT ![p] = FALSE]
    /\ UNCHANGED <<branches, worktrees, dirs, runLog, raceFailed, clobbered>>
    /\ UNCHANGED <<envVars, pc, exitCode, scanVars, copyVars, listVars, branchVars>>

\* mkdir -p dirname(worktreePath)
MkdirBase(p) ==
    /\ wpc[p] = "mkdir"
    /\ dirs' = dirs \cup {dirname(worktreePathOf(worktreeBase, wname[p]))}
    /\ wpc' = [wpc EXCEPT ![p] = "check"]
    /\ UNCHANGED <<branches, worktrees, wname, wbase, runs, runLog, overlap,
                   raceFailed, clobbered>>
    /\ UNCHANGED <<envVars, pc, exitCode, scanVars, copyVars, listVars, branchVars>>

\* if (existsSync(worktreePath))
ExistsStep(p) ==
    /\ wpc[p] = "check"
    /\ wpc' = [wpc EXCEPT ![p] =
                  IF worktreePathOf(worktreeBase, wname[p]) \in dirs
                  THEN "remove" ELSE "create"]
    /\ overlap' = overlapAfter(wpc', wname)
    /\ UNCHANGED <<branches, worktrees, dirs, wname, wbase, runs, runLog,
                   raceFailed, clobbered>>
    /\ UNCHANGED <<envVars, pc, exitCode, scanVars, copyVars, listVars, branchVars>>

\* git worktree remove <worktreePath> --force, .nothrow()
RemoveWorktree(p) ==
    /\ wpc[p] = "remove"
    /\ LET path == worktreePathOf(worktreeBase, wname[p])
       IN  /\ worktrees' = worktreeRemove(worktrees, path)
           /\ dirs' = dirsAfterRemove(dirs, worktrees, path)
           /\ clobbered' =
                 \/ clobbered
                 \/ \E w \in registeredAt(path) :
                        /\ w.by[1] \in Procs \ {p}
                        /\ wpc[w.by[1]] = "copying"
                        /\ runs[w.by[1]] = w.by[2]
    /\ wpc' = [wpc EXCEPT ![p] = "deleteBranch"]
    /\ UNCHANGED <<branches, wname, wbase, runs, runLog, overlap, raceFailed>>
    /\ UNCHANGED <<envVars, pc, exitCode, scanVars, copyVars, listVars, branchVars>>

\* git branch -D <branch>, .nothrow()
DeleteBranch(p) ==
    /\ wpc[p] = "deleteBranch"
    /\ branches' = branchDelete(branches, worktrees, branchOf(wname[p]))
    /\ wpc' = [wpc EXCEPT ![p] = "create"]
    /\ UNCHANGED <<worktrees, dirs, wname, wbase, runs, runLog, overlap,
                   raceFailed, clobbered>>
    /\ UNCHANGED <<envVars, pc, exitCode, scanVars, copyVars, listVars, branchVars>>

\* git worktree add -b <branch> <worktreePath> <baseBranch>; throws on failure
CreateStep(p) ==
    /\ wpc[p] = "create"
    /\ LET b    == branchOf(wname[p])
           path == worktreePathOf(worktreeBase, wname[p])
       IN  IF shellThrows(worktreeAddOk(b, path, wbase[p]))
           THEN /\ wpc' = [wpc EXCEPT ![p] = "failed"]
                /\ raceFailed' = (raceFailed \/ wbase[p])
                /\ UNCHANGED <<branches, worktrees, dirs>>
           ELSE /\ wpc' = [wpc EXCEPT ![p] = "copying"]
                /\ branches' = branches \cup {b}
                /\ worktrees' = worktrees \cup
                      {[path |-> path, branch |-> b, by |-> <<p, runs[p]>>]}
                /\ dirs' = dirs \cup {path}
                /\ UNCHANGED raceFailed
    /\ UNCHANGED <<wname, wbase, runs, runLog, overlap, clobbered>>
    /\ UNCHANGED <<envVars, pc, exitCode, scanVars, copyVars, listVars, branchVars>>

\* copyExcludedFiles, the report, and the end of the command
AddFinish(p) ==
    /\ wpc[p] = "copying"
    /\ wpc' = [wpc EXCEPT ![p] = "idle"]
    /\ runLog' = [runLog EXCEPT ![p] = Append(@, [name |-> wname[p], ok |-> TRUE])]
    /\ UNCHANGED <<branches, worktrees, dirs, wname, wbase, runs, overlap,
                   raceFailed, clobbered>>
    /\ UNCHANGED <<envVars, pc, exitCode, scanVars, copyVars, listVars, branchVars>>

\* main's catch after createWorktree threw: process.exit(1)
AddFail(p) ==
    /\ wpc[p] = "failed"
    /\ wpc' = [wpc EXCEPT ![p] = "idle"]
    /\ runLog' = [runLog EXCEPT ![p] = Append(@, [name |-> wname[p], ok |-> FALSE])]
    /\ UNCHANGED <<branches, worktrees, dirs, wname, wbase, runs, overlap,
                   raceFailed, clobbered>>
    /\ UNCHANGED <<envVars, pc, exitCode, scanVars, copyVars, listVars, branchVars>>

(***************************************************************************)
(* Worktree Registry View: listMyWorktrees over                            *)
(* `git worktree list --porcelain`.                                        *)
(***************************************************************************)
WorktreeSpace == <<"w", "o", "r", "k", "t", "r", "e", "e", " ">>

BranchSpace == <<"b", "r", "a", "n", "c", "h", " ">>

RefsHeads == <<"r", "e", "f", "s", "/", "h", "e", "a", "d", "s", "/">>

HeadLine == <<"H", "E", "A", "D", " ", "0">>

DetachedLine == <<"d", "e", "t", "a", "c", "h", "e", "d">>

Main == <<"m", "a", "i", "n">>

Master == <<"m", "a", "s", "t", "e", "r">>

\* the main worktree, on its branch or with a detached HEAD
MainEntries ==
    {[path |-> MainRoot, branch |-> Main, mine |-> FALSE],
     [path |-> MainRoot, branch |-> None, mine |-> FALSE]}

\* linked worktrees: two made by the tool, two unrelated ones (one with the
\* prefix inside its branch name), one with a detached HEAD
LinkedEntries ==
    {[path |-> join(worktreeBase, NameX), branch |-> branchOf(NameX), mine |-> TRUE],
     [path |-> join(worktreeBase, NameY), branch |-> branchOf(NameY), mine |-> TRUE],
     [path |-> <<"/", "o">>, branch |-> <<"f", "e", "a", "t">>, mine |-> FALSE],
     [path |-> <<"/", "p">>, branch |-> <<"o", "/">> \o branchOf(NameX), mine |-> FALSE],
     [path |-> <<"/", "d">>, branch |-> None, mine |-> FALSE]}

\* one record of the porcelain listing, closed by an empty line
porcelainRecord(e) ==
    WorktreeSpace \o e.path \o <<"\n">> \o HeadLine \o <<"\n">>
    \o (IF e.branch = None THEN DetachedLine
        ELSE BranchSpace \o RefsHeads \o e.branch)
    \o <<"\n", "\n">>

RECURSIVE porcelain(_)
porcelain(entries) ==
    IF entries = <<>> THEN <<>>
    ELSE porcelainRecord(Head(entries)) \o porcelain(Tail(entries))

\* wrong: the prefix anywhere in the branch name
isMineAnywhere(currentBranch) == includes(currentBranch, BranchPrefix)

\* currentBranch.startsWith("bytree/")
isMine(currentBranch) == startsWith(currentBranch, BranchPrefix)

RECURSIVE listLoop(_, _, _)
listLoop(lines, currentPath, found) ==
    IF lines = <<>> THEN found
    ELSE LET line == Head(lines)
         IN  IF startsWith(line, WorktreeSpace)
             THEN listLoop(Tail(lines), replace(line, WorktreeSpace, <<>>), found)
             ELSE IF startsWith(line, BranchSpace)
             THEN LET currentBranch == replace(line, BranchSpace \o RefsHeads, <<>>)
                  IN  listLoop(Tail(lines), currentPath,
                               IF isMine(currentBranch)
                               THEN Append(found, [path |-> currentPath,
                                                   branch |-> currentBranch])
                               ELSE found)
             ELSE listLoop(Tail(lines), currentPath, found)

listMyWorktrees(output) == listLoop(split(output, "\n"), <<>>, <<>>)

\* the list command
ListCommand ==
    /\ lpc = "start"
    /\ listed' = listMyWorktrees(porcelain(listing))
    /\ lpc' = "done"
    /\ UNCHANGED listing
    /\ UNCHANGED <<envVars, pc, exitCode, scanVars, copyVars, gitVars, branchVars>>

(***************************************************************************)
(* Repository Locator: getDefaultBranch.                                   *)
(***************************************************************************)
RefsRemotesOrigin ==
    <<"r", "e", "f", "s", "/", "r", "e", "m", "o", "t", "e", "s", "/",
      "o", "r", "i", "g", "i", "n", "/">>

Origin == <<"o", "r", "i", "g", "i", "n", "/">>

Dev == <<"d", "e", "v">>

Mainline == <<"m", "a", "i", "n", "l", "i", "n", "e">>

RemoteOrder == <<Dev, Main, Mainline, Master>>

SymbolicRefs ==
    {None,
     RefsRemotesOrigin \o Main \o <<"\n">>,
     RefsRemotesOrigin \o Dev \o <<"\n">>}

\* `git branch -r`: one indented line per remote-tracking branch
RECURSIVE branchRLines(_, _)
branchRLines(order, present) ==
    IF order = <<>> THEN <<>>
    ELSE (IF Head(order) \in present
          THEN <<" ", " ">> \o Origin \o Head(order) \o <<"\n">>
          ELSE <<>>)
         \o branchRLines(Tail(order), present)

getDefaultBranch(symRef, brOk, branchList) ==
    IF symRef # None
    THEN [raised |-> FALSE,
          value  |-> replace(trim(symRef), RefsRemotesOrigin, <<>>)]
    ELSE IF shellThrows(brOk) THEN [raised |-> TRUE, value |-> None]
    ELSE IF includes(branchList, Origin \o Main)
    THEN [raised |-> FALSE, value |-> Main]
    ELSE IF includes(branchList, Origin \o Master)
    THEN [raised |-> FALSE, value |-> Master]
    ELSE [raised |-> FALSE, value |-> Main]

\* addCommand: const base = baseBranch || (await getDefaultBranch(repoRoot))
DefaultBranch ==
    /\ dpc = "start"
    /\ defaultBranch' =
          getDefaultBranch(symbolicRef, branchROk,
                           branchRLines(RemoteOrder, remoteBranches))
    /\ dpc' = "done"
    /\ UNCHANGED <<symbolicRef, remoteBranches, branchROk>>
    /\ UNCHANGED <<envVars, pc, exitCode, scanVars, copyVars, gitVars, listVars>>

(***************************************************************************)
(* Initial states and specifications.                                      *)
(***************************************************************************)
\* the lines the replication runs draw their exclude file from
ScanLines == {LineFooDir, LineFooA, LineComment}

ReplicateIdle ==
    /\ patterns = <<>>
    /\ pi = 0
    /\ pos = 0
    /\ pending = None
    /\ excludedFiles = <<>>
    /\ pushedBy = <<>>
    /\ dangling = {}
    /\ files = <<>>
    /\ ci = 0
    /\ copied = <<>>
    /\ wtFiles = {}
    /\ failedAt = 0
    /\ deletes = 0
    /\ exitCode = "running"

EnvIdle ==
    /\ cwd = MainRoot
    /\ excludeLines = <<>>
    /\ excludeFile = NoFile
    /\ repoFiles = {}
    /\ repoRoot = None
    /\ worktreePath = None
    /\ pc = "off"
    /\ wtDirs = {}

ListIdle ==
    /\ listing = <<>>
    /\ lpc = "off"
    /\ listed = <<>>

BranchIdle ==
    /\ symbolicRef = None
    /\ remoteBranches = {}
    /\ branchROk = TRUE
    /\ dpc = "off"
    /\ defaultBranch = [raised |-> FALSE, value |-> None]

\* what a name's worktree can look like when a command starts: never made;
\* made by an earlier add; its directory deleted by hand; deleted and pruned;
\* a plain directory in its place
Kinds == {"clean", "managed", "dirGone", "pruned", "plainDir"}

GitStateOf(k) ==
    /\ branches = {branchOf(n) : n \in {m \in Names : k[m] \in {"managed", "dirGone", "pruned"}}}
    /\ worktrees = {[path |-> worktreePathOf(worktreeBase, n), branch |-> branchOf(n),
                     by |-> <<0, 0>>] :
                        n \in {m \in Names : k[m] \in {"managed", "dirGone"}}}
    /\ dirs = {worktreePathOf(worktreeBase, n) :
                        n \in {m \in Names : k[m] \in {"managed", "plainDir"}}}
              \cup (IF \A m \in Names : k[m] = "clean" THEN {} ELSE {worktreeBase})

GitProcsIdle ==
    /\ wpc = [p \in Procs |-> "idle"]
    /\ wname = [p \in Procs |-> NameX]
    /\ wbase = [p \in Procs |-> TRUE]
    /\ runs = [p \in Procs |-> 0]
    /\ runLog = [p \in Procs |-> <<>>]
    /\ overlap = [p \in Procs |-> FALSE]
    /\ raceFailed = FALSE
    /\ clobbered = FALSE

GitIdle ==
    /\ branches = {}
    /\ worktrees = {}
    /\ dirs = {}
    /\ GitProcsIdle

\* the exclude file: absent, or written with the given lines
ExcludeFileFrom(lineSet, n) ==
    \/ /\ excludeLines = <<>>
       /\ excludeFile = NoFile
    \/ /\ excludeLines \in SeqsUpTo(lineSet, n)
       /\ excludeFile = FileOf(excludeLines)

\* the excluded command, started in any directory of the repository
InitPatterns ==
    /\ cwd \in Cwds
    /\ ExcludeFileFrom(RawLines, MaxLines)
    /\ repoFiles = {}
    /\ repoRoot = None
    /\ worktreePath = None
    /\ pc = "excluded"
    /\ wtDirs = {}
    /\ ReplicateIdle /\ GitIdle /\ ListIdle /\ BranchIdle

NextPatterns == ExcludedCommand

SpecPatterns == InitPatterns /\ [][NextPatterns]_vars

\* add y after createWorktree has returned: copyExcludedFiles is about to run
InitReplicate ==
    /\ cwd \in Cwds
    /\ ExcludeFileFrom(ScanLines, MaxPatterns)
    /\ repoFiles = AllFiles
    /\ repoRoot = getRepoRoot(cwd)
    /\ worktreePath = worktreePathOf(worktreeBaseOf(repoRoot), NameY)
    /\ pc = "find"
    /\ wtDirs = {dirname(worktreePath), worktreePath}
    /\ ReplicateIdle /\ GitIdle /\ ListIdle /\ BranchIdle

NextReplicate ==
    \/ FindStart
    \/ ScanNext
    \/ ExistsCheck
    \/ FindReturn
    \/ CopyEntry
    \/ CopyReturn
    \/ MainExit
    \/ MainCatch
    \/ DeleteFile

SpecReplicate == InitReplicate /\ [][NextReplicate]_vars

\* one user running add commands one after the other
InitWorktree ==
    /\ \E k \in [Names -> Kinds] : GitStateOf(k)
    /\ GitProcsIdle
    /\ EnvIdle /\ ReplicateIdle /\ ListIdle /\ BranchIdle

NextWorktree ==
    \/ \E n \in Names, b \in BOOLEAN : AddStart(1, n, b)
    \/ MkdirBase(1)
    \/ ExistsStep(1)
    \/ RemoveWorktree(1)
    \/ DeleteBranch(1)
    \/ CreateStep(1)
    \/ AddFinish(1)
    \/ AddFail(1)

SpecWorktree == InitWorktree /\ [][NextWorktree]_vars

\* two users running add x at the same time, the repository in order
InitRace ==
    /\ \E k \in [Names -> {"clean", "managed"}] : k[NameY] = "clean" /\ GitStateOf(k)
    /\ GitProcsIdle
    /\ EnvIdle /\ ReplicateIdle /\ ListIdle /\ BranchIdle

NextRace ==
    \E p \in Procs :
        \/ \E b \in BOOLEAN : AddStart(p, NameX, b)
        \/ MkdirBase(p)
        \/ ExistsStep(p)
        \/ RemoveWorktree(p)
        \/ DeleteBranch(p)
        \/ CreateStep(p)
        \/ AddFinish(p)
        \/ AddFail(p)

SpecRace == InitRace /\ [][NextRace]_vars

InjectiveSeqs(S, n) ==
    {q \in SeqsUpTo(S, n) : \A i, j \in 1..Len(q) : i # j => q[i] # q[j]}

\* the list command: the main worktree first, then the linked ones
InitList ==
    /\ \E m \in MainEntries, q \in InjectiveSeqs(LinkedEntries, MaxWorktrees) :
          listing = <<m>> \o q
    /\ lpc = "start"
    /\ listed = <<>>
    /\ EnvIdle /\ ReplicateIdle /\ GitIdle /\ BranchIdle

NextList == ListCommand

SpecList == InitList /\ [][NextList]_vars

InitBranch ==
    /\ symbolicRef \in SymbolicRefs
    /\ remoteBranches \in {S \in SUBSET Range(RemoteOrder) : Cardinality(S) <= MaxRemoteBranches}
    /\ branchROk \in BOOLEAN
    /\ dpc = "start"
    /\ defaultBranch = [raised |-> FALSE, value |-> None]
    /\ EnvIdle /\ ReplicateIdle /\ GitIdle /\ ListIdle

NextBranch == DefaultBranch

SpecBranch == InitBranch /\ [][NextBranch]_vars

(***************************************************************************)
(* What the properties are stated against: paths and names written out,    *)
(* not computed by the operators under test.                               *)
(***************************************************************************)
ExpectedBase == <<"/", "r", "-", "b", "y", "t", "r", "e", "e">>

ExpectedPath(n) == ExpectedBase \o <<"/">> \o n

ExpectedBranch(n) == <<"b", "y", "t", "r", "e", "e", "/">> \o n

\* where entry f of the main working tree belongs in the worktree of `add y`
ExpectedDest(f) == ExpectedPath(NameY) \o <<"/">> \o f

\* the directories above an absolute path
DirsAbove(path) == {SubSeq(path, 1, i - 1) : i \in {j \in 2..Len(path) : path[j] = "/"}}

NoDuplicates(q) == \A i, j \in 1..Len(q) : i # j => q[i] # q[j]

\* what a raw line of the exclude file stands for: a pattern, or nothing
Denotes(line) ==
    IF line = LineFooDir THEN LineFooDir
    ELSE IF line = LineFooA THEN FooA
    ELSE None

RECURSIVE DenotedPatterns(_)
DenotedPatterns(lines) ==
    IF lines = <<>> THEN <<>>
    ELSE (IF Denotes(Head(lines)) = None THEN <<>> ELSE <<Denotes(Head(lines))>>)
         \o DenotedPatterns(Tail(lines))

UnderFoo(f) == Len(f) > 4 /\ SubSeq(f, 1, 4) = <<"f", "o", "o", "/">>

RECURSIVE MineOf(_)
MineOf(entries) ==
    IF entries = <<>> THEN <<>>
    ELSE (IF Head(entries).mine
          THEN <<[path |-> Head(entries).path, branch |-> Head(entries).branch]>>
          ELSE <<>>)
         \o MineOf(Tail(entries))

Scanned == pc \in {"copy", "returned", "threw", "exited"}

(***************************************************************************)
(* C1: when a process has run `add n` twice in succession and both         *)
(* creation steps succeeded, then after the second run exactly one         *)
(* worktree is registered for n, at <base>/n on branch bytree/n, it is the *)
(* one the second run made, and nothing of the first run is left.          *)
(***************************************************************************)
C1_AddTwiceLeavesOne ==
    \A p \in Procs :
        LET log == runLog[p]
            k   == Len(log)
        IN  (/\ wpc[p] = "idle"
             /\ k >= 2
             /\ log[k].ok /\ log[k - 1].ok
             /\ log[k].name = log[k - 1].name)
            => LET n == log[k].name
               IN  /\ {w \in worktrees :
                          \/ w.path = ExpectedPath(n)
                          \/ w.branch = ExpectedBranch(n)
                          \/ w.by = <<p, k - 1>>}
                      = {[path |-> ExpectedPath(n), branch |-> ExpectedBranch(n),
                          by |-> <<p, k>>]}
                   /\ ExpectedBranch(n) \in branches
                   /\ ExpectedPath(n) \in dirs

\* the second of two successive successful runs of `add x` has ended
C1_Witness ==
    /\ wpc[1] = "idle"
    /\ runLog[1] = <<[name |-> NameX, ok |-> TRUE], [name |-> NameX, ok |-> TRUE]>>
    /\ \E w \in worktrees : w.by = <<1, 2>>

(***************************************************************************)
(* C2: whenever createWorktree reaches its creation step for a name, no    *)
(* prior worktree and no prior branch bytree/<name> is left, whatever the  *)
(* prior state was.                                                        *)
(***************************************************************************)
C2_PriorStateRemoved ==
    \A p \in Procs :
        wpc[p] = "create"
        => /\ ExpectedBranch(wname[p]) \notin branches
           /\ ~\E w \in worktrees : w.path = ExpectedPath(wname[p])

(***************************************************************************)
(* C3: from every directory the command is started in, getExcludePatterns  *)
(* returns the trimmed, non-empty, non-comment lines of the main           *)
(* repository's exclude file, in order, duplicates kept; the empty list    *)
(* only when the file is absent or has no such line.                       *)
(***************************************************************************)
C3_PatternsFromAnyDirectory ==
    pc = "exited" => patterns = DenotedPatterns(excludeLines)

(***************************************************************************)
(* C4, as claimed: a path that a glob scan matched and that was deleted    *)
(* before its existence check is not in the result of findExcludedFiles.   *)
(***************************************************************************)
C4_DeletedMatchNotReturned == Scanned => dangling \cap Range(files) = {}

(***************************************************************************)
(* C4, amended: findExcludedFiles adds a path only at an existence check   *)
(* that finds it on disk; a match deleted before its existence check adds  *)
(* nothing; the result holds exactly the paths so added.                   *)
(***************************************************************************)
C4_AddedOnlyIfOnDisk ==
    [][/\ excludedFiles' # excludedFiles
          => /\ pending \in repoFiles
             /\ excludedFiles' = Append(excludedFiles, pending)
       /\ (pending # None /\ pending' = None /\ pending \notin repoFiles)
          => excludedFiles' = excludedFiles
       /\ files' # files => Range(files') = Range(excludedFiles)]_vars

\* a match was deleted before its existence check and is not in the result
C4_Witness ==
    /\ pc = "copy"
    /\ dangling # {}
    /\ dangling \cap Range(files) = {}
    /\ files # <<>>

(***************************************************************************)
(* C5: the pattern "/foo/" contributes every file on disk under foo/, at   *)
(* any depth and dot-files included, and nothing else: no file of foobar/  *)
(* and no file of a foo/ below the root.                                   *)
(***************************************************************************)
C5_DirectoryPattern ==
    Scanned =>
        \A i \in 1..Len(patterns) :
            patterns[i] = LineFooDir
            => /\ \A f \in pushedBy[i] : UnderFoo(f)
               /\ \A f \in repoFiles : UnderFoo(f) => f \in pushedBy[i] /\ f \in Range(files)
               /\ FoobarC \notin pushedBy[i]
               /\ SFooE \notin pushedBy[i]

\* "/foo/" was scanned with foobar/c and s/foo/e on disk
C5_Witness ==
    /\ pc = "copy"
    /\ patterns = <<LineFooDir>>
    /\ Range(files) = {FooA, FooDotH, FooDB}
    /\ {FoobarC, SFooE} \subseteq repoFiles

(***************************************************************************)
(* C6: when copyExcludedFiles returns, the list it returns holds each      *)
(* resolved path once, every returned path is a file at worktreePath/path  *)
(* with the directories above it, and with nothing resolved the list is    *)
(* empty and nothing was written.                                          *)
(***************************************************************************)
C6_CopiedIsResolvedSet ==
    (pc = "returned" \/ (pc = "exited" /\ exitCode = "0"))
    => /\ NoDuplicates(copied)
       /\ Range(copied) = Range(excludedFiles)
       /\ \A f \in Range(copied) :
             /\ ExpectedDest(f) \in wtFiles
             /\ DirsAbove(ExpectedDest(f)) \subseteq wtDirs
       /\ excludedFiles = <<>>
          => /\ copied = <<>>
             /\ wtFiles = {}
             /\ wtDirs = {ExpectedBase, ExpectedPath(NameY)}

\* copyExcludedFiles returned after copying foo/a and foo/d/b
C6_Witness ==
    /\ pc = "returned"
    /\ {FooA, FooDB} \subseteq Range(copied)

(***************************************************************************)
(* C9: when the copy of an entry fails, copyExcludedFiles throws: the      *)
(* entries before it are the only ones copied, no later entry is copied,   *)
(* no entry is reported copied without being copied, and add exits with 1. *)
(***************************************************************************)
C9_CopyFailureAborts ==
    /\ \A f \in Range(copied) : ExpectedDest(f) \in wtFiles
    /\ wtFiles \subseteq {ExpectedDest(f) : f \in Range(copied)}
    /\ failedAt # 0
       => /\ pc \in {"threw", "exited"}
          /\ copied = SubSeq(files, 1, failedAt - 1)
          /\ \A j \in failedAt..Len(files) : ExpectedDest(files[j]) \notin wtFiles
          /\ pc = "exited" => exitCode = "1"
    /\ (pc = "exited" /\ exitCode = "0") => failedAt = 0

\* the copy of the second of three entries failed and add exited with 1
C9_Witness ==
    /\ pc = "exited"
    /\ exitCode = "1"
    /\ failedAt = 2
    /\ Len(files) = 3
    /\ Len(copied) = 1

(***************************************************************************)
(* C7: listMyWorktrees returns the worktrees whose branch begins with      *)
(* bytree/, one entry each, in listing order, each branch with the path of *)
(* its own worktree.                                                       *)
(***************************************************************************)
C7_ListsOnlyMine ==
    lpc = "done"
    => /\ listed = MineOf(listing)
       /\ \A i \in 1..Len(listed) :
             SubSeq(listed[i].branch, 1, 7) = <<"b", "y", "t", "r", "e", "e", "/">>

\* a detached worktree, then an unrelated one, then one of the tool's
C7_Witness ==
    /\ lpc = "done"
    /\ Len(listing) = 4
    /\ listing[2].branch = None
    /\ listing[3].branch = <<"o", "/">> \o ExpectedBranch(NameX)
    /\ listing[4].mine
    /\ listed = <<[path |-> listing[4].path, branch |-> listing[4].branch]>>

(***************************************************************************)
(* C8: when reading the remote's symbolic HEAD fails, getDefaultBranch     *)
(* does not raise and returns main or master.                              *)
(***************************************************************************)
C8_FallbackNeverRaises ==
    (dpc = "done" /\ symbolicRef = None)
    => /\ ~defaultBranch.raised
       /\ defaultBranch.value \in {Main, Master}

(***************************************************************************)
(* C10: nothing keeps two invocations of add x apart between the existence *)
(* check and the creation step: a creation step whose base ref exists      *)
(* fails only when another invocation was inside that window at the same   *)
(* time, and such runs exist (the witness).  The runs start from a         *)
(* repository where x was never made or is intact, so that every failure   *)
(* seen is one the concurrency made.                                       *)
(***************************************************************************)
C10_FailsOnlyByRace ==
    \A p \in Procs : (wpc[p] = "failed" /\ wbase[p]) => overlap[p]

\* one invocation's creation step failed by the race, and a forced removal
\* took the worktree an invocation had just created and was still using
C10_Witness == raceFailed /\ clobbered

=============================================================================
